---- MODULE Spec2Model ----
(***************************************************************************)
(* State-machine model of one tool invocation of the Wordware MCP bridge.  *)
(*                                                                         *)
(* The repository holds several revisions of the same functions.  The     *)
(* model keeps them apart by a suffix:                                     *)
(*   _A  src/src/utils/api.ts 1-526 (and src/unnamed/part_002, the same    *)
(*       code with logging): executeApp submits with fetch and then calls  *)
(*       waitForRunCompletion (30 attempts);                               *)
(*   _B  src/src/utils/api.ts 528-1048: JSON-RPC, one request per call;    *)
(*   _C  src/src/utils/api.ts 1050-1564: executeApp calls                  *)
(*       makeWordwareRequest, whose poll loop has no attempt count.        *)
(* rev selects the revision of api.ts, entry the caller: the tool handler  *)
(* of src/src/index.ts ("index", returns executeApp's value), the tool     *)
(* handler of src/unnamed/part_000 and part_001 ("part", returns           *)
(* executeTool's value) or a direct call of the exported                   *)
(* makeWordwareRequest ("mwr", with or without a stream callback).         *)
(***************************************************************************)
EXTENDS Integers, Sequences, FiniteSets, TLC

\* ---------------------------------------------------------------- bounds

\* the counter of status requests stops counting here (revision C's poll loop
\* has no bound of its own)
MaxPolls == 32

\* chunks the transport may deliver on one event stream
MaxChunks == 2

\* characters per chunk
MaxChunkLen == 2

\* pieces a remote tool title is made of
MaxTitleLen == 2

\* records the remote side writes to one event stream
MaxLines == 2

\* remote tools the server is configured with (APP_IDS, or the tools/list reply)
MaxApps == 3

\* ------------------------------------------------------- program constants

\* for (let attempt = 0; attempt < 30; attempt++)
MaxAttempts == 30

\* ------------------------------------------------------------ JSON values

Str(s) == [t |-> "str", v |-> s]

Null == [t |-> "null"]

Undef == [t |-> "undef"]

\* an object is the sequence of its <<key, value>> entries, in key order
Obj(kv) == [t |-> "obj", kv |-> kv]

Arr(items) == [t |-> "arr", items |-> items]

Num(n) == [t |-> "num", v |-> n]

Bool(b) == [t |-> "bool", v |-> b]

\* JavaScript truthiness: if (x), x || y, !x
Truthy(v) ==
  CASE v.t = "str" -> v.v # ""
    [] v.t = "num" -> v.v # 0
    [] v.t = "bool" -> v.v
    [] v.t = "null" -> FALSE
    [] v.t = "undef" -> FALSE
    [] OTHER -> TRUE

\* Object.keys(v)
ObjectKeys(v) ==
  CASE v.t = "obj" -> [i \in 1..Len(v.kv) |-> v.kv[i][1]]
    [] v.t = "arr" -> [i \in 1..Len(v.items) |-> ToString(i - 1)]
    [] OTHER -> <<>>

\* v[k] and v.k on a value that is neither null nor undefined
Get(v, k) ==
  CASE v.t = "obj" ->
         IF \E i \in 1..Len(v.kv) : v.kv[i][1] = k
         THEN v.kv[CHOOSE i \in 1..Len(v.kv) : v.kv[i][1] = k][2]
         ELSE Undef
    [] v.t = "arr" ->
         IF \E i \in 1..Len(v.items) : ToString(i - 1) = k
         THEN v.items[CHOOSE i \in 1..Len(v.items) : ToString(i - 1) = k]
         ELSE Undef
    [] OTHER -> Undef

\* a property read of null or undefined throws a TypeError
ReadThrows(v) == v.t \in {"null", "undef"}

\* typeof v === "object"
TypeofObject(v) == v.t \in {"obj", "arr", "null"}

RECURSIVE Spaces(_)
Spaces(n) == IF n = 0 THEN "" ELSE " " \o Spaces(n - 1)

RECURSIVE JoinLines(_)
JoinLines(parts) ==
  IF Len(parts) = 0 THEN ""
  ELSE IF Len(parts) = 1 THEN parts[1]
  ELSE parts[1] \o ",\n" \o JoinLines(Tail(parts))

\* JSON.stringify(v, null, 2) of a value that is not undefined; ind is the
\* indentation of the enclosing line
RECURSIVE Stringify(_, _)
Stringify(v, ind) ==
  CASE v.t = "str" -> "\"" \o v.v \o "\""
    [] v.t = "num" -> ToString(v.v)
    [] v.t = "bool" -> IF v.v THEN "true" ELSE "false"
    [] v.t = "null" -> "null"
    [] v.t = "undef" -> "null"
    [] v.t = "arr" ->
         IF Len(v.items) = 0 THEN "[]"
         ELSE "[\n"
              \o JoinLines([i \in 1..Len(v.items) |->
                     Spaces(ind + 2) \o Stringify(v.items[i], ind + 2)])
              \o "\n" \o Spaces(ind) \o "]"
    [] v.t = "obj" ->
         LET kept == SelectSeq(v.kv, LAMBDA e : e[2].t # "undef")
         IN IF Len(kept) = 0 THEN "{}"
            ELSE "{\n"
                 \o JoinLines([i \in 1..Len(kept) |->
                        Spaces(ind + 2) \o "\"" \o kept[i][1] \o "\": "
                        \o Stringify(kept[i][2], ind + 2)])
                 \o "\n" \o Spaces(ind) \o "}"

\* `${x}` and String(x) of a value used as message text
TextOf(v) ==
  CASE v.t = "str" -> v.v
    [] v.t = "num" -> ToString(v.v)
    [] v.t = "bool" -> IF v.v THEN "true" ELSE "false"
    [] v.t = "null" -> "null"
    [] v.t = "undef" -> "undefined"
    [] v.t = "arr" -> "[array]"
    [] OTHER -> "[object Object]"

\* { type: "text", text: s }
TextBlock(v) == Obj(<< <<"type", Str("text")>>, <<"text", v>> >>)

\* { type: "html", html: s }
HtmlBlock(v) == Obj(<< <<"type", Str("html")>>, <<"html", v>> >>)

\* { content: [ ... ] }
Content(blocks) == Obj(<< <<"content", Arr(blocks)>> >>)

\* { error: msg }
ErrObj(msg) == Obj(<< <<"error", Str(msg)>> >>)

\* ------------------------------------------------- the remote service

Statuses == {"pending", "completed", "succeeded", "failed"}

\* run outputs the service may report
Outputs ==
  { Obj(<< <<"text", Str("done")>> >>),
    Obj(<< <<"content", Arr(<<>>)>> >>),
    Obj(<< <<"html", Str("<p>")>>, <<"text", Str("p")>> >>) }

\* attributes.outputs is optional
OutputsOpt == Outputs \cup {Undef}

\* attributes.error is optional
ErrOpt == {Undef, Str("boom")}

\* one HTTP exchange as the caller sees it: kind "neterr" is a rejected fetch,
\* "httperr" a response with ok = false, "ok" a response whose JSON body holds
\* data.id (id, "" when missing), data.attributes.status/outputs/error and
\* data.links.stream (stream)
Resp(kind, id, status, outputs, error, stream) ==
  [kind |-> kind, id |-> id, status |-> status, outputs |-> outputs,
   error |-> error, stream |-> stream]

NoResp == Resp("none", "", "", Undef, Undef, FALSE)

NetErr == Resp("neterr", "", "", Undef, Undef, FALSE)

HttpErr == Resp("httperr", "", "", Undef, Undef, FALSE)

SubmitResponses ==
  {NetErr, HttpErr}
  \cup {Resp("ok", id, s, o, Undef, st) :
          id \in {"r1", ""}, s \in Statuses, o \in OutputsOpt, st \in BOOLEAN}

PollResponses ==
  {NetErr, HttpErr}
  \cup {Resp("ok", "r1", s, o, e, FALSE) :
          s \in Statuses, o \in OutputsOpt, e \in ErrOpt}

\* the JSON-RPC reply of revision B: data.error or data.result
RpcResults == Outputs \cup {Str("plain"), Undef, Null}

\* data.error of a JSON-RPC reply
RpcErrOpt == {Undef, Obj(<< <<"message", Str("boom")>> >>)}

RpcResponses ==
  {NetErr, HttpErr}
  \cup {Resp("ok", "", "", r, e, FALSE) : r \in RpcResults, e \in RpcErrOpt}

\* the body of a run resource as parsed JSON
RunJson(r) ==
  Obj(<< <<"data",
           Obj(<< <<"id", IF r.id = "" THEN Undef ELSE Str(r.id)>>,
                  <<"attributes",
                    Obj(<< <<"status", Str(r.status)>>,
                           <<"outputs", r.outputs>>,
                           <<"error", r.error>> >>)>> >>)>> >>)

\* messages of the errors the runtime raises
FetchFailed == "fetch failed"

NoKey == "WORDWARE_API_KEY environment variable is not set"

\* the text of a non-ok response (await response.text())
ErrorBody == "quota exceeded"

\* the registered tool's name (formattedTitle) and the app it runs
Title == "My_Tool"

\* ------------------------------------------------------ completion values

\* how an awaited call ends: a returned value or a thrown Error(msg)
Return(v) == [thrown |-> FALSE, value |-> v, msg |-> ""]

Throw(msg) == [thrown |-> TRUE, value |-> Undef, msg |-> msg]

\* the RunOutcome an engine return stands for
NoOutcome == [k |-> "none", outputs |-> Undef, reason |-> ""]

Succeeded(o) == [k |-> "Succeeded", outputs |-> o, reason |-> ""]

Failed(why) == [k |-> "Failed", outputs |-> Undef, reason |-> why]

TimedOut == [k |-> "TimedOut", outputs |-> Undef, reason |-> ""]

\* ----------------------------------------------------- result formatting

\* executeTool of revisions A and C, applied to how executeApp ended
executeTool_AC(c) ==
  IF c.thrown
  THEN Content(<<TextBlock(Str("An error occurred while executing the tool: "
                               \o c.msg))>>)
  ELSE
  LET result == c.value IN
  IF ReadThrows(result)
  THEN Content(<<TextBlock(Str("An error occurred while executing the tool: "
                               \o "Cannot read properties of "
                               \o TextOf(result) \o " (reading 'error')"))>>)
  ELSE IF Truthy(Get(result, "error"))
  THEN Content(<<TextBlock(Str("Error: " \o TextOf(Get(result, "error"))))>>)
  ELSE
  LET keys == ObjectKeys(result)
      firstKey == IF Len(keys) > 0 THEN keys[1] ELSE ""
      nested == Get(result, firstKey)
      cleanedResult ==
        IF TypeofObject(result) /\ result.t # "null"
        THEN IF Truthy(Get(result, "output"))
             THEN Get(result, "output")
             ELSE IF /\ firstKey # ""
                     /\ TypeofObject(nested)
                     /\ nested.t # "null"
                     /\ Truthy(Get(nested, "output"))
                  THEN Get(nested, "output")
                  ELSE result
        ELSE result
  IN
  IF Truthy(Get(cleanedResult, "content")) /\ Get(cleanedResult, "content").t = "arr"
  THEN Obj(<< <<"content", Get(cleanedResult, "content")>> >>)
  ELSE IF Truthy(Get(cleanedResult, "markdown"))
  THEN Content(<<TextBlock(Get(cleanedResult, "markdown"))>>)
  ELSE IF Truthy(Get(cleanedResult, "html"))
  THEN Content(<<HtmlBlock(Get(cleanedResult, "html"))>>)
  ELSE IF Truthy(Get(cleanedResult, "text"))
  THEN Content(<<TextBlock(Get(cleanedResult, "text"))>>)
  ELSE IF Truthy(Get(cleanedResult, "data"))
  THEN Content(<<TextBlock(
         IF Get(cleanedResult, "data").t = "str"
         THEN Get(cleanedResult, "data")
         ELSE Str(Stringify(Get(cleanedResult, "data"), 0)))>>)
  ELSE IF cleanedResult.t = "str"
  THEN Content(<<TextBlock(cleanedResult)>>)
  ELSE Content(<<TextBlock(Str(Stringify(cleanedResult, 0)))>>)

\* executeTool of revision B; JSON.stringify(undefined) is undefined
executeTool_B(c) ==
  IF c.thrown
  THEN Content(<<TextBlock(Str("Error executing tool " \o Title \o ": " \o c.msg))>>)
  ELSE Content(<<TextBlock(
         IF c.value.t \in {"str", "undef"}
         THEN c.value
         ELSE Str(Stringify(c.value, 0)))>>)

\* the tool handler of index.ts: it returns what executeApp returned
HandlerIndex(c) ==
  IF c.thrown
  THEN Content(<<TextBlock(Str("Error executing " \o Title \o ": " \o c.msg))>>)
  ELSE IF ~Truthy(c.value)
  THEN Content(<<TextBlock(Str("Error executing " \o Title \o ": "
                               \o "Failed to execute app " \o Title))>>)
  ELSE c.value

\* the tool handler of part_000 and part_001: return await executeTool(...)
HandlerPart(r, c) == IF r = "B" THEN executeTool_B(c) ELSE executeTool_AC(c)

\* what the handler registered by registerTools returns for an executeApp
\* that ended as c
Handler(e, r, c) == IF e = "index" THEN HandlerIndex(c) ELSE HandlerPart(r, c)

\* how an engine call ends: its completion c and the RunOutcome o it stands for
Ended(c, o) == [c |-> c, o |-> o]

\* executeApp of revision C, given the value m makeWordwareRequest returned
executeApp_C(m) ==
  IF \/ ~Truthy(m)
     \/ ~Truthy(Get(m, "data"))
     \/ ~Truthy(Get(Get(m, "data"), "attributes"))
  THEN Ended(Return(ErrObj("Failed to execute app")), Failed("Failed to execute app"))
  ELSE LET attrs == Get(Get(m, "data"), "attributes") IN
       IF Get(attrs, "status") = Str("succeeded")
       THEN LET out == IF Truthy(Get(attrs, "outputs"))
                       THEN Get(attrs, "outputs") ELSE Obj(<<>>)
            IN Ended(Return(out), Succeeded(out))
       ELSE LET why == IF Truthy(Get(attrs, "error"))
                       THEN Get(attrs, "error") ELSE Str("Unknown error")
            IN Ended(Return(Obj(<< <<"error", why>> >>)), Failed(TextOf(why)))

\* ------------------------------------------------------------ the stream

StreamChars == {"\n", " ", "1", "0"}

\* the chunks reader.read() may deliver
Chunks == UNION {[1..n -> StreamChars] : n \in 1..MaxChunkLen}

RECURSIVE TrimLeft(_)
TrimLeft(l) == IF Len(l) > 0 /\ Head(l) = " " THEN TrimLeft(Tail(l)) ELSE l

RECURSIVE TrimRight(_)
TrimRight(l) ==
  IF Len(l) > 0 /\ l[Len(l)] = " " THEN TrimRight(SubSeq(l, 1, Len(l) - 1)) ELSE l

\* buffer.join("").trim(), as the sequence of the line's characters
Trim(l) == TrimRight(TrimLeft(l))

RECURSIVE Digits(_)
Digits(l) ==
  IF Len(l) = 0 THEN 0
  ELSE 10 * Digits(SubSeq(l, 1, Len(l) - 1)) + (IF l[Len(l)] = "1" THEN 1 ELSE 0)

RECURSIVE Concat(_)
Concat(l) == IF Len(l) = 0 THEN "" ELSE Head(l) \o Concat(Tail(l))

\* JSON.parse(line) over this alphabet: a number without leading zero, a
\* string between double quotes, the empty object, or a throw
JSONParse(l) ==
  IF /\ Len(l) > 0
     /\ \A i \in 1..Len(l) : l[i] \in {"0", "1"}
     /\ (l[1] = "0" => Len(l) = 1)
  THEN Return(Num(Digits(l)))
  ELSE IF /\ Len(l) >= 2
          /\ l[1] = "\"" /\ l[Len(l)] = "\""
          /\ \A i \in 2..(Len(l) - 1) : l[i] \notin {"\"", "\n"}
  THEN Return(Str(Concat(SubSeq(l, 2, Len(l) - 1))))
  ELSE IF l = <<"{", "}">>
  THEN Return(Obj(<<>>))
  ELSE Throw("Unexpected token")

\* decoder.decode(value), a TextDecoder for UTF-8 called without the stream
\* option: "e1" "e2" are the two bytes of one character "e"; a first byte
\* that its second does not follow in the same call, and a second byte on
\* its own, each decode to the replacement character, written "?"
RECURSIVE TextDecode(_)
TextDecode(bytes) ==
  IF Len(bytes) = 0 THEN <<>>
  ELSE IF Head(bytes) = "e1" /\ Len(bytes) > 1 /\ bytes[2] = "e2"
  THEN <<"e">> \o TextDecode(Tail(Tail(bytes)))
  ELSE IF Head(bytes) \in {"e1", "e2"}
  THEN <<"?">> \o TextDecode(Tail(bytes))
  ELSE <<Head(bytes)>> \o TextDecode(Tail(bytes))

\* the line starts with a log prefix: "INFO:" stands for the four prefixes
\* INFO:, DEBUG:, WARN:, ERROR: and the bracketed [..] [..] [..] form
HasLogPrefix(line) == Len(line) > 0 /\ line[1] = "INFO:"

\* sanitizeAndParseStreamResponse of revisions A and B: null for an empty
\* line and for a log line, and otherwise the function ends without a return
\* statement
sanitizeAndParseStreamResponse_A(line) ==
  IF Len(line) = 0 \/ Len(Trim(line)) = 0 THEN Null
  ELSE IF HasLogPrefix(line) THEN Null
  ELSE Undef

\* sanitizeAndParseStreamResponse of revision C (src/unnamed/part_002 has the
\* same three steps)
sanitizeAndParseStreamResponse_C(line) ==
  IF Len(line) = 0 \/ Len(Trim(line)) = 0 THEN Null
  ELSE IF HasLogPrefix(line) THEN Null
  ELSE IF JSONParse(line).thrown THEN Null
  ELSE JSONParse(line).value

sanitizeAndParseStreamResponse(r, line) ==
  IF r = "C" THEN sanitizeAndParseStreamResponse_C(line)
  ELSE sanitizeAndParseStreamResponse_A(line)

\* the for loop over one chunk: st = [buffer, sink] after the characters of chunk
RECURSIVE ProcessChunk(_, _, _)
ProcessChunk(r, st, chunk) ==
  IF Len(chunk) = 0 THEN st
  ELSE IF Head(chunk) = "\n"
  THEN LET line == Trim(st.buffer)
           content == sanitizeAndParseStreamResponse(r, line)
       IN ProcessChunk(r,
            [buffer |-> <<>>,
             sink |-> IF Len(line) > 0 /\ Truthy(content)
                      THEN Append(st.sink, content) ELSE st.sink],
            Tail(chunk))
  ELSE ProcessChunk(r, [st EXCEPT !.buffer = Append(@, Head(chunk))], Tail(chunk))

\* ---------------------------------------------------------------- state

VARIABLES
  rev,          \* revision of api.ts in use: "A", "B" or "C"
  entry,        \* caller: "index", "part" (tool handlers) or "mwr"
  onStream,     \* whether makeWordwareRequest was given a stream callback
  apiKey,       \* whether WORDWARE_API_KEY is set
  pc,           \* where the invocation is suspended
  attempt,      \* waitForRunCompletion's loop counter
  runId,        \* data.id of the submit response ("" when missing)
  streamUrl,    \* whether the submit response carried data.links.stream
  submits,      \* submit requests sent
  polls,        \* status requests sent (counted up to MaxPolls)
  delays,       \* inter-attempt timers awaited (counted up to MaxPolls)
  streamOpens,  \* stream requests sent
  requests,     \* the requests sent so far: what each was for and how it was authorised
  submitKind,   \* kind of the submit response received ("none" before)
  submitDone,   \* whether it reported status completed with outputs
  lastPoll,     \* the latest status response received
  sawTerminal,  \* whether some status response reported a terminal status
  chunkCount,   \* chunks read from the stream
  buffer,       \* characters of the unfinished stream line
  sink,         \* values passed to the stream callback, in order
  streamClosed, \* whether reader.read() reported done (the stream's natural end)
  result,       \* how executeApp (or the direct makeWordwareRequest) ended
  outcome,      \* the RunOutcome that end stands for
  response,     \* the value the tool handler returned
  raw,          \* the value executeApp handed to executeTool (formatting alone)
  unified,      \* what executeTool returned for raw
  server,       \* the server file whose registerTools runs ("none": not run)
  descriptor,   \* the remote tool descriptor being registered
  registered,   \* the arguments of the server.tool call (NoTool: none made)
  formatted,    \* formattedSchema at the server.tool call
  transformed,  \* what transformInputSchema returned
  streamBody,   \* the bytes the remote side writes to the event stream
  readPos,      \* how many of them reader.read() has delivered
  calls,        \* the locals of each of the concurrent calls of executeApp
  issued,       \* how many runs the remote side has created for them
  DISABLE_LOGGING,  \* the module-level flag of src/unnamed/part_002
  launcher,     \* how the process was started: "cli" (cli.ts) or "node" (the server file)
  world,        \* what the remote side holds for each configured tool
  idx,          \* position of registerTools' loop (0: the loop was not entered)
  registry,     \* the server.tool calls that returned, in order
  connected,    \* whether server.connect(transport) has been called
  called        \* the app the latest tools/call reached (0: none yet)

vars ==
  <<rev, entry, onStream, apiKey, pc, attempt, runId, streamUrl, submits, polls,
    delays, streamOpens, requests, submitKind, submitDone, lastPoll, sawTerminal, chunkCount,
    buffer, sink, streamClosed, result, outcome, response, raw, unified,
    server, descriptor, registered, formatted, transformed, streamBody, readPos,
    calls, issued, DISABLE_LOGGING, launcher, world, idx, registry, connected, called>>

\* what the submit response left behind
submitVars == <<runId, streamUrl, submitKind, submitDone>>

config == <<rev, entry, onStream, apiKey>>

streamVars == <<chunkCount, buffer, sink, streamClosed>>

pollVars == <<attempt, polls, delays, lastPoll, sawTerminal>>

endVars == <<result, outcome, response>>

\* the state of a formatting run of executeTool on its own
unifyVars == <<raw, unified>>

\* the state of a registerTools run
registryVars == <<server, descriptor, registered, formatted, transformed>>

\* the state of the process start: main and registerTools' loop
startupVars == <<launcher, world, idx, registry, connected, called>>

\* the state of a run of the stream loop on its own
bodyVars == <<streamBody, readPos>>

\* the state of concurrent calls of executeApp
concVars == <<calls, issued, DISABLE_LOGGING>>

\* what an invocation never touches
aside == <<unifyVars, registryVars, startupVars, bodyVars, concVars>>

\* no registration has been made
NoTool == [made |-> FALSE]

\* no formatting run is under way
UnifyIdle == raw = Undef /\ unified = Undef

\* no registerTools run is under way
RegistryIdle ==
  /\ server = "none"
  /\ descriptor = Undef
  /\ registered = NoTool
  /\ formatted = Undef
  /\ transformed = Undef

\* no run of the stream loop on its own is under way
BodyIdle == streamBody = <<>> /\ readPos = 0

\* no concurrent calls are under way
ConcIdle == calls = <<>> /\ issued = 0 /\ DISABLE_LOGGING = FALSE

\* no process start is under way
StartupIdle ==
  /\ BodyIdle
  /\ ConcIdle
  /\ launcher = "none"
  /\ world = <<>>
  /\ idx = 0
  /\ registry = <<>>
  /\ connected = FALSE
  /\ called = 0

\* the state of an invocation that has not sent anything yet
InvocationStart ==
  /\ attempt = 0
  /\ runId = ""
  /\ streamUrl = FALSE
  /\ submitKind = "none"
  /\ submitDone = FALSE
  /\ submits = 0
  /\ polls = 0
  /\ delays = 0
  /\ streamOpens = 0
  /\ requests = {}
  /\ lastPoll = NoResp
  /\ sawTerminal = FALSE
  /\ chunkCount = 0
  /\ buffer = <<>>
  /\ sink = <<>>
  /\ streamClosed = FALSE
  /\ result = Return(Undef)
  /\ outcome = NoOutcome
  /\ response = Undef

Init ==
  /\ rev \in {"A", "B", "C"}
  /\ entry \in {"index", "part", "mwr"}
  /\ onStream \in BOOLEAN
  /\ apiKey \in BOOLEAN
  /\ entry = "mwr" => rev \in {"A", "C"}
  /\ onStream => entry = "mwr"
  /\ pc = "start"
  /\ InvocationStart
  /\ UnifyIdle
  /\ RegistryIdle
  /\ StartupIdle

\* the invocation runs makeWordwareRequest: revision C's executeApp calls it,
\* and so does a direct caller
UsesMwr == entry = "mwr" \/ rev = "C"

Count(n) == IF n < MaxPolls THEN n + 1 ELSE n

\* how a request carries WORDWARE_API_KEY: revisions A and C put it in the
\* header Authorization: Bearer <key> ("bearer"; "empty" when the key is the
\* empty string revision C falls back to), revision B puts it in the path of
\* the URL and sends no Authorization header ("path")
Auth == IF rev = "B" THEN "path" ELSE IF apiKey THEN "bearer" ELSE "empty"

\* fetch(...) is called for the purpose `to`
Send(to) == requests' = requests \cup {[to |-> to, auth |-> Auth]}

\* a status response that is terminal by the run lifecycle: failed, or
\* completed/succeeded with outputs
IsSuccessStatus(r) ==
  r.kind = "ok" /\ r.status \in {"completed", "succeeded"} /\ Truthy(r.outputs)

IsFailedStatus(r) == r.kind = "ok" /\ r.status = "failed"

IsTerminalStatus(r) == IsSuccessStatus(r) \/ IsFailedStatus(r)

\* the submit response r is received
Submitted(r) ==
  /\ submitKind' = r.kind
  /\ submitDone' = (r.kind = "ok" /\ r.status = "completed" /\ Truthy(r.outputs))
  /\ runId' = (IF r.kind = "ok" THEN r.id ELSE runId)
  /\ streamUrl' = (IF r.kind = "ok" THEN r.stream ELSE streamUrl)

\* executeApp ends as e: the handler formats it and the invocation is over
Finish(e) ==
  /\ pc' = "done"
  /\ result' = e.c
  /\ outcome' = e.o
  /\ response' = Handler(entry, rev, e.c)

\* an engine step that leaves the loop running
Continue == Ended(Return(Undef), NoOutcome)

IsContinue(e) == e.o.k = "none"

\* ------------------------------------------------------------ revision A

\* executeApp (A) after the submit response r: what it returns, or Continue
\* when it goes on to waitForRunCompletion
executeApp_A_OnSubmit(r) ==
  CASE r.kind = "neterr" ->
         Ended(Return(ErrObj("Execution error: " \o FetchFailed)),
               Failed("Execution error: " \o FetchFailed))
    [] r.kind = "httperr" ->
         Ended(Return(ErrObj("API error: 500 Internal Server Error")),
               Failed("API error: 500 Internal Server Error"))
    [] r.kind = "ok" /\ r.status = "completed" /\ Truthy(r.outputs) ->
         Ended(Return(r.outputs), Succeeded(r.outputs))
    [] OTHER -> Continue

\* one pass of waitForRunCompletion's loop body (A) for status response r
waitForRunCompletion_A_OnPoll(r) ==
  CASE r.kind = "neterr" ->
         Ended(Return(ErrObj("Error waiting for run completion: " \o FetchFailed)),
               Failed("Error waiting for run completion: " \o FetchFailed))
    [] r.kind = "httperr" -> Continue
    [] r.kind = "ok" /\ r.status = "completed" /\ Truthy(r.outputs) ->
         Ended(Return(r.outputs), Succeeded(r.outputs))
    [] r.kind = "ok" /\ r.status = "failed" ->
         Ended(Return(ErrObj("Run failed")), Failed("Run failed"))
    [] OTHER -> Continue

\* executeApp (A) is called: the key check, then the submit request
executeApp_A_Start ==
  /\ pc = "start" /\ rev = "A" /\ entry # "mwr"
  /\ IF ~apiKey
     THEN /\ Finish(Ended(Return(ErrObj("Execution error: " \o NoKey)),
                          Failed("Execution error: " \o NoKey)))
          /\ UNCHANGED <<submits, requests>>
     ELSE /\ submits' = submits + 1
          /\ Send("submit")
          /\ pc' = "submit"
          /\ UNCHANGED endVars
  /\ UNCHANGED <<config, aside, submitVars, streamOpens, pollVars, streamVars>>

\* the submit response arrives
executeApp_A_Response ==
  /\ pc = "submit" /\ rev = "A" /\ entry # "mwr"
  /\ \E r \in SubmitResponses :
       LET e == executeApp_A_OnSubmit(r) IN
       /\ Submitted(r)
       /\ IF IsContinue(e)
          THEN pc' = "delay" /\ UNCHANGED endVars
          ELSE Finish(e)
  /\ UNCHANGED <<config, aside, submits, streamOpens, requests, pollVars, streamVars>>

\* waitForRunCompletion (A): the 2 s timer ends and the status request is sent
waitForRunCompletion_A_Delay ==
  /\ pc = "delay" /\ rev = "A" /\ entry # "mwr"
  /\ delays' = Count(delays)
  /\ polls' = Count(polls)
  /\ Send("poll")
  /\ pc' = "poll"
  /\ UNCHANGED <<config, aside, attempt, submitVars, submits, streamOpens, lastPoll,
                 sawTerminal, streamVars, endVars>>

\* waitForRunCompletion (A): the status response arrives; the loop returns,
\* or counts the attempt and either waits again or times out
waitForRunCompletion_A_Response ==
  /\ pc = "poll" /\ rev = "A" /\ entry # "mwr"
  /\ \E r \in PollResponses :
       LET e == waitForRunCompletion_A_OnPoll(r) IN
       /\ lastPoll' = r
       /\ sawTerminal' = (sawTerminal \/ IsTerminalStatus(r))
       /\ IF ~IsContinue(e)
          THEN Finish(e) /\ UNCHANGED attempt
          ELSE /\ attempt' = attempt + 1
               /\ IF attempt + 1 < MaxAttempts
                  THEN pc' = "delay" /\ UNCHANGED endVars
                  ELSE Finish(Ended(Return(ErrObj("Run timed out")), TimedOut))
  /\ UNCHANGED <<config, aside, submitVars, submits, polls, delays, streamOpens,
                 requests, streamVars>>

\* ------------------------------------------------------------ revision B

\* executeApp (B) after the JSON-RPC response r
executeApp_B_OnResponse(r) ==
  CASE r.kind = "neterr" -> Ended(Throw(FetchFailed), Failed(FetchFailed))
    [] r.kind = "httperr" ->
         Ended(Throw("Error executing tool: 500"), Failed("Error executing tool: 500"))
    [] r.kind = "ok" /\ Truthy(r.error) ->
         Ended(Throw("JSON-RPC error: " \o TextOf(Get(r.error, "message"))),
               Failed("JSON-RPC error: " \o TextOf(Get(r.error, "message"))))
    [] OTHER -> Ended(Return(r.outputs), Succeeded(r.outputs))

\* executeApp (B) is called: the key check, then the one JSON-RPC request
executeApp_B_Start ==
  /\ pc = "start" /\ rev = "B"
  /\ IF ~apiKey
     THEN Finish(Ended(Throw(NoKey), Failed(NoKey))) /\ UNCHANGED <<submits, requests>>
     ELSE /\ submits' = submits + 1
          /\ Send("submit")
          /\ pc' = "submit"
          /\ UNCHANGED endVars
  /\ UNCHANGED <<config, aside, submitVars, streamOpens, pollVars, streamVars>>

\* the JSON-RPC response arrives
executeApp_B_Response ==
  /\ pc = "submit" /\ rev = "B"
  /\ \E r \in RpcResponses : Finish(executeApp_B_OnResponse(r)) /\ Submitted(r)
  /\ UNCHANGED <<config, aside, submits, streamOpens, requests, pollVars, streamVars>>

\* ------------------------------------- makeWordwareRequest (A and C)

\* a makeWordwareRequest that streams whenever it was given a callback
UseStream_IgnoresUrl(cb, url) == cb

\* a makeWordwareRequest that streams whenever the response has a stream link
UseStream_IgnoresCallback(cb, url) == url

\* if (onStream && streamUrl): read the event stream, else poll
UseStream(cb, url) == cb /\ url

\* makeWordwareRequest after the submit response r: "null" when it returns
\* null (an error was caught), "stream" or "poll" for the branch it takes.
\* Revision A reads the body of a failed response as text and then as JSON,
\* which throws; revision C throws at once, and also when data.id is missing.
makeWordwareRequest_OnSubmit(r, cb) ==
  CASE r.kind # "ok" -> "null"
    [] r.kind = "ok" /\ rev = "C" /\ r.id = "" -> "null"
    [] OTHER -> IF UseStream(cb, r.stream) THEN "stream" ELSE "poll"

\* one pass of makeWordwareRequest's poll loop for status response r: "null"
\* (caught error), "return" (the run record is returned) or "wait"
makeWordwareRequest_OnPoll(r) ==
  CASE r.kind # "ok" -> "null"
    [] r.kind = "ok" /\ r.status = "completed" -> "return"
    [] r.kind = "ok" /\ r.status = "failed" -> "null"
    [] OTHER -> "wait"

\* makeWordwareRequest returns m: a direct caller gets it, executeApp (C)
\* turns it into its own return and the handler formats that
FinishMwr(m) ==
  IF entry = "mwr"
  THEN /\ pc' = "done"
       /\ result' = Return(m)
       /\ outcome' = (IF Truthy(m)
                      THEN Succeeded(Get(Get(Get(m, "data"), "attributes"), "outputs"))
                      ELSE NoOutcome)
       /\ response' = Undef
  ELSE Finish(executeApp_C(m))

\* makeWordwareRequest is called: revision A checks the key, then the submit
makeWordwareRequest_Start ==
  /\ pc = "start" /\ UsesMwr
  /\ IF rev = "A" /\ ~apiKey
     THEN FinishMwr(Null) /\ UNCHANGED <<submits, requests>>
     ELSE /\ submits' = submits + 1
          /\ Send("submit")
          /\ pc' = "submit"
          /\ UNCHANGED endVars
  /\ UNCHANGED <<config, aside, submitVars, streamOpens, pollVars, streamVars>>

\* the submit response arrives: the stream request or the first status
\* request is sent at once
makeWordwareRequest_Response ==
  /\ pc = "submit" /\ UsesMwr
  /\ \E r \in SubmitResponses :
       LET next == makeWordwareRequest_OnSubmit(r, onStream) IN
       /\ Submitted(r)
       /\ CASE next = "null" ->
                 FinishMwr(Null) /\ UNCHANGED <<streamOpens, polls, requests>>
            [] next = "stream" ->
                 /\ streamOpens' = streamOpens + 1
                 /\ Send("stream")
                 /\ pc' = "streamopen"
                 /\ UNCHANGED <<polls, endVars>>
            [] next = "poll" ->
                 /\ polls' = Count(polls)
                 /\ Send("poll")
                 /\ pc' = "poll"
                 /\ UNCHANGED <<streamOpens, endVars>>
  /\ UNCHANGED <<config, aside, submits, attempt, delays, lastPoll, sawTerminal, streamVars>>

\* the stream response arrives: a failed fetch or a non-ok response is caught
makeWordwareRequest_StreamOpen ==
  /\ pc = "streamopen" /\ UsesMwr
  /\ \E kind \in {"neterr", "httperr", "ok"} :
       IF kind = "ok"
       THEN pc' = "stream" /\ UNCHANGED endVars
       ELSE FinishMwr(Null)
  /\ UNCHANGED <<config, aside, submitVars, submits, streamOpens, requests, pollVars,
                 streamVars>>

\* reader.read() resolves with a chunk, which the for loop consumes
makeWordwareRequest_StreamChunk ==
  /\ pc = "stream" /\ UsesMwr
  /\ chunkCount < MaxChunks
  /\ \E chunk \in Chunks :
       LET st == ProcessChunk(rev, [buffer |-> buffer, sink |-> sink],
                              TextDecode(chunk)) IN
       /\ chunkCount' = chunkCount + 1
       /\ buffer' = st.buffer
       /\ sink' = st.sink
  /\ UNCHANGED <<config, aside, pc, submitVars, submits, streamOpens, requests, pollVars,
                 endVars, streamClosed>>

\* reader.read() resolves with done (closed) or rejects: the loop is left and
\* null is returned either way, without a status request
makeWordwareRequest_StreamEnd ==
  /\ pc = "stream" /\ UsesMwr
  /\ \E closed \in BOOLEAN : streamClosed' = closed
  /\ FinishMwr(Null)
  /\ UNCHANGED <<config, aside, submitVars, submits, streamOpens, requests, pollVars,
                 chunkCount, buffer, sink>>

\* a status response arrives in the poll loop
makeWordwareRequest_PollResponse ==
  /\ pc = "poll" /\ UsesMwr
  /\ \E r \in PollResponses :
       LET next == makeWordwareRequest_OnPoll(r) IN
       /\ lastPoll' = r
       /\ sawTerminal' = (sawTerminal \/ IsTerminalStatus(r))
       /\ CASE next = "null" -> FinishMwr(Null)
            [] next = "return" -> FinishMwr(RunJson(r))
            [] next = "wait" -> pc' = "delay" /\ UNCHANGED endVars
  /\ UNCHANGED <<config, aside, submitVars, submits, streamOpens, requests, attempt,
                 polls, delays, streamVars>>

\* the 1 s timer of the poll loop ends and the next status request is sent
makeWordwareRequest_PollDelay ==
  /\ pc = "delay" /\ UsesMwr
  /\ delays' = Count(delays)
  /\ polls' = Count(polls)
  /\ Send("poll")
  /\ pc' = "poll"
  /\ UNCHANGED <<config, aside, attempt, submitVars, submits, streamOpens, lastPoll,
                 sawTerminal, streamVars, endVars>>

\* ------------------------------------------------------- specification

Next ==
  \/ executeApp_A_Start
  \/ executeApp_A_Response
  \/ waitForRunCompletion_A_Delay
  \/ waitForRunCompletion_A_Response
  \/ executeApp_B_Start
  \/ executeApp_B_Response
  \/ makeWordwareRequest_Start
  \/ makeWordwareRequest_Response
  \/ makeWordwareRequest_StreamOpen
  \/ makeWordwareRequest_StreamChunk
  \/ makeWordwareRequest_StreamEnd
  \/ makeWordwareRequest_PollResponse
  \/ makeWordwareRequest_PollDelay

Spec == Init /\ [][Next]_vars

\* every awaited fetch, read and timer of a running invocation settles
FairSpec == Spec /\ WF_vars(Next)

\* ------------------------------------------- executeTool on its own

\* the fields executeTool looks for, with a value for each
LadderFields == <<"content", "markdown", "html", "text", "data">>

FieldValue(k) ==
  CASE k = "content" -> Arr(<<TextBlock(Str("c"))>>)
    [] k = "markdown" -> Str("# m")
    [] k = "html" -> Str("<p>h</p>")
    [] k = "text" -> Str("t")
    [] k = "data" -> Obj(<< <<"n", Num(1)>> >>)

\* the object that has exactly the fields of S
Flat(S) ==
  LET keys == SelectSeq(LadderFields, LAMBDA k : k \in S)
  IN Obj([i \in 1..Len(keys) |-> <<keys[i], FieldValue(keys[i])>>])

FlatResults == {Flat(S) : S \in SUBSET {"content", "markdown", "html", "text", "data"}}

\* o with the entry <<k, v>> put first
WithFirst(k, v, o) == Obj(<< <<k, v>> >> \o o.kv)

\* values executeApp may hand to executeTool: flat objects, objects that
\* nest one under .output directly or inside their first key, the same
\* beside fields of their own, error objects, strings, null and undefined
ExecuteAppResults ==
  FlatResults
  \cup {WithFirst("output", f, g) :
          f \in FlatResults, g \in {Flat({}), Flat({"content"}), Flat({"text"})}}
  \cup {WithFirst("run", WithFirst("output", f, Flat({})), g) :
          f \in FlatResults, g \in {Flat({}), Flat({"text"})}}
  \cup {ErrObj("boom"), Str("plain"), Str(""), Null, Undef}

\* executeTool(appId, params) is called with an executeApp that returns raw
InitUnify ==
  /\ rev \in {"A", "B", "C"}
  /\ entry = "part"
  /\ onStream = FALSE
  /\ apiKey = TRUE
  /\ pc = "unify"
  /\ InvocationStart
  /\ raw \in ExecuteAppResults
  /\ unified = Undef
  /\ RegistryIdle
  /\ StartupIdle

\* executeTool formats raw and returns
executeTool_Return ==
  /\ pc = "unify"
  /\ unified' = HandlerPart(rev, Return(raw))
  /\ pc' = "unified"
  /\ UNCHANGED <<rev, entry, onStream, apiKey, raw, registryVars, startupVars, bodyVars, concVars,
                 submitVars, submits,
                 streamOpens, requests, pollVars, streamVars, endVars>>

NextUnify == executeTool_Return

UnifySpec == InitUnify /\ [][NextUnify]_vars

\* ------------------------------------------------- tool registration

\* registerTools exists in three server files: src/src/index.ts ("index"),
\* src/unnamed/part_001 ("part_001") and src/unnamed/part_000 ("part_000").
\* The registration is the server.tool(name, description, schema, handler)
\* call.  The patches of index.ts that rewrite _toolSchemas or wrap
\* server.request act only when the SDK object has those members; nothing in
\* this repository assigns them, and they are left out.
Servers == {"index", "part_001", "part_000"}

\* a run of 64 characters that are valid in a tool name
Long64 == "xxxxxxxxxxxxxxxxxxxxxxxxxxxxxxxxxxxxxxxxxxxxxxxxxxxxxxxxxxxxxxxx"

\* a title is a sequence of pieces: a letter, a blank, a character that is
\* not valid in a name, two words and a long run of valid characters
TitleTokens == {"a", " ", "!", "Google", "Search", Long64}

Titles == UNION {[1..n -> TitleTokens] : n \in 0..MaxTitleLen}

\* .replace(/\s+/g, "_"): every run of blanks becomes one underscore
RECURSIVE ReplaceWhitespace(_)
ReplaceWhitespace(t) ==
  IF Len(t) = 0 THEN <<>>
  ELSE IF Head(t) = " "
  THEN IF Len(t) > 1 /\ t[2] = " "
       THEN ReplaceWhitespace(Tail(t))
       ELSE <<"_">> \o ReplaceWhitespace(Tail(t))
  ELSE <<Head(t)>> \o ReplaceWhitespace(Tail(t))

\* .replace(/[^a-zA-Z0-9_-]/g, "")
StripInvalid(t) == SelectSeq(t, LAMBDA c : c # "!")

\* formattedTitle
FormatTitle(t) == StripInvalid(ReplaceWhitespace(t))

\* the number of characters of a name
RECURSIVE NameLength(_)
NameLength(n) == IF Len(n) = 0 THEN 0 ELSE Len(Head(n)) + NameLength(Tail(n))

\* title.toLowerCase().includes(word), word being "google" or "search"
LowerIncludes(t, word) ==
  \E i \in 1..Len(t) :
    \/ t[i] = "Google" /\ word = "google"
    \/ t[i] = "Search" /\ word = "search"

\* name.includes(pattern), both as sequences of pieces
Includes(n, pattern) ==
  \E i \in 1..(Len(n) - Len(pattern) + 1) :
    SubSeq(n, i, i + Len(pattern) - 1) = pattern

\* o with o[k] = v
Put(o, k, v) ==
  IF \E i \in 1..Len(o.kv) : o.kv[i][1] = k
  THEN Obj([i \in 1..Len(o.kv) |-> IF o.kv[i][1] = k THEN <<k, v>> ELSE o.kv[i]])
  ELSE Obj(Append(o.kv, <<k, v>>))

\* the object with the entries of kv whose value is defined
Json(kv) == Obj(SelectSeq(kv, LAMBDA e : e[2].t # "undef"))

\* Object.keys(v) as a JSON array
KeysArr(v) == Arr([i \in 1..Len(ObjectKeys(v)) |-> Str(ObjectKeys(v)[i])])

\* a property of an input schema with the declared type t
Prop(t) == Json(<< <<"type", t>> >>)

\* inputSchema.properties of the remote descriptors
PropertySets ==
  { Undef,
    Obj(<<>>),
    Obj(<< <<"random_string", Prop(Str("string"))>> >>),
    Obj(<< <<"a", Prop(Str("string"))>> >>),
    Obj(<< <<"a", Prop(Str("array"))>> >>),
    Obj(<< <<"a", Prop(Undef)>> >>),
    Obj(<< <<"random_string", Prop(Str("string"))>>, <<"a", Prop(Str("number"))>> >>),
    Obj(<< <<"a", Prop(Str("number"))>>, <<"b", Prop(Str("boolean"))>> >>) }

\* inputSchema.required of the remote descriptors
RequiredLists == {Undef, Arr(<<>>), Arr(<<Str("a")>>)}

\* inputSchema of the remote descriptors
InputSchemas ==
  {Undef}
  \cup {Json(<< <<"type", t>>, <<"properties", p>>, <<"required", r>>,
                <<"additionalProperties", ap>> >>) :
          t \in {Undef, Str("object")}, p \in PropertySets, r \in RequiredLists,
          ap \in {Undef, Bool(TRUE), Bool(FALSE)}}

\* appDetails.data.attributes (tool, in part_000)
Descriptors ==
  [title : Titles,
   description : {Undef, Str("Summarize a page")},
   inputSchema : InputSchemas]

\* the schema substituted for a missing or malformed inputSchema
DefaultSchema ==
  Obj(<< <<"type", Str("object")>>,
         <<"properties",
           Obj(<< <<"query", Obj(<< <<"type", Str("string")>>,
                                  <<"description", Str("Input for the tool")>> >>)>> >>)>>,
         <<"required", Arr(<<Str("query")>>)>>,
         <<"additionalProperties", Bool(FALSE)>> >>)

\* googleSearchSchema of index.ts
GoogleSearchSchema ==
  Obj(<< <<"type", Str("object")>>,
         <<"properties",
           Obj(<< <<"query", Obj(<< <<"type", Str("string")>>,
                                  <<"description", Str("Search query for Google")>> >>)>> >>)>>,
         <<"required", Arr(<<Str("query")>>)>>,
         <<"additionalProperties", Bool(FALSE)>> >>)

\* the arguments of one server.tool call; zod tells a zod shape from a JSON
\* schema
Tool(name, description, zod, schema) ==
  [made |-> TRUE, name |-> name, description |-> description, zod |-> zod,
   schema |-> schema]

\* what one pass of registerTools' loop body leaves: the registration and
\* the values of formattedSchema and transformedSchema
Pass(tool, f, t) == [tool |-> tool, formatted |-> f, transformed |-> t]

\* transformInputSchema of part_000 and part_001
transformInputSchema_Part(inputSchema) ==
  IF ~Truthy(inputSchema) THEN Null
  ELSE
  LET props == Get(inputSchema, "properties")
      keys == ObjectKeys(props)
      properties ==
        Obj([i \in 1..Len(keys) |->
               <<keys[i],
                 Obj(<< <<"type",
                          IF Truthy(Get(Get(props, keys[i]), "type"))
                          THEN Get(Get(props, keys[i]), "type")
                          ELSE Str("string")>> >>)>>])
  IN IF /\ Truthy(props)
        /\ ~(Truthy(Get(props, "random_string")) /\ Len(keys) = 1)
        /\ Len(keys) > 0
     THEN Obj(<< <<"type", Str("object")>>, <<"properties", properties>> >>)
     ELSE Obj(<< <<"type", Str("object")>>,
                 <<"properties",
                   Obj(<< <<"input", Obj(<< <<"type", Str("string")>> >>)>> >>)>> >>)

\* transformInputSchema of index.ts
transformInputSchema_Index(inputSchema, toolName) ==
  IF ~Truthy(inputSchema) THEN Null
  ELSE
  LET props == Get(inputSchema, "properties")
      keys == SelectSeq(ObjectKeys(props), LAMBDA k : k # "random_string")
      properties ==
        Obj([i \in 1..Len(keys) |->
               <<keys[i],
                 Obj(<< <<"type",
                          IF Truthy(Get(Get(props, keys[i]), "type"))
                          THEN Get(Get(props, keys[i]), "type")
                          ELSE Str("string")>>,
                        <<"description",
                          IF Truthy(Get(Get(props, keys[i]), "description"))
                          THEN Get(Get(props, keys[i]), "description")
                          ELSE Str("Input parameter " \o keys[i])>> >>)>>])
      req == Get(inputSchema, "required")
      required ==
        IF req.t = "arr"
        THEN Arr(SelectSeq(req.items, LAMBDA r : r # Str("random_string")))
        ELSE KeysArr(properties)
      OneString(k, d) ==
        Obj(<< <<"type", Str("object")>>,
               <<"properties",
                 Obj(<< <<k, Obj(<< <<"type", Str("string")>>,
                                    <<"description", Str(d)>> >>)>> >>)>>,
               <<"required", Arr(<<Str(k)>>)>> >>)
  IN IF /\ Truthy(props)
        /\ ~(/\ Truthy(Get(props, "random_string"))
             /\ Len(ObjectKeys(props)) = 1)
        /\ Len(keys) > 0
     THEN Obj(<< <<"type", Str("object")>>, <<"properties", properties>>,
                 <<"required", required>> >>)
     ELSE IF Includes(toolName, <<"Google", "_", "Search">>)
     THEN OneString("query", "Search query for Google")
     ELSE IF Includes(toolName, <<"LinkedIn", "_", "Profile">>)
     THEN OneString("profile_url", "LinkedIn profile URL to fetch data from")
     ELSE OneString("input", "Input for the tool")

\* the zod type chosen for a property: string, number or boolean, string for
\* anything else
ZodType(prop) ==
  IF Get(prop, "type") \in {Str("string"), Str("number"), Str("boolean")}
  THEN Get(prop, "type").v
  ELSE "string"

\* cleanSchema of part_000 and part_001: one zod member per property of
\* formattedSchema.properties, none of them optional
cleanSchema(props) ==
  LET keys == ObjectKeys(props) IN
  Obj([i \in 1..Len(keys) |->
         <<keys[i],
           Obj(<< <<"zod", Str(ZodType(Get(props, keys[i])))>>,
                  <<"description",
                    IF Truthy(Get(Get(props, keys[i]), "description"))
                    THEN Get(Get(props, keys[i]), "description")
                    ELSE Str(ZodType(Get(props, keys[i]))
                             \o " input for the tool")>> >>)>>])

\* "Make sure required and additionalProperties are present" (index.ts,
\* part_001)
FillRequired(schema) ==
  IF \/ ~Truthy(Get(schema, "required"))
     \/ Get(schema, "required").t # "arr"
     \/ Len(Get(schema, "required").items) = 0
  THEN Put(schema, "required", KeysArr(Get(schema, "properties")))
  ELSE schema

\* "Add required field if missing" (part_000): an empty list is kept
FillRequired_000(schema) ==
  IF ~Truthy(Get(schema, "required"))
  THEN Put(schema, "required", KeysArr(Get(schema, "properties")))
  ELSE schema

FillAdditionalProperties(schema) ==
  IF Get(schema, "additionalProperties").t = "undef"
  THEN Put(schema, "additionalProperties", Bool(FALSE))
  ELSE schema

\* "If the schema is not well-formed, create a default one"
WellFormedOrDefault(inputSchema) ==
  IF \/ ~Truthy(inputSchema)
     \/ ~Truthy(Get(inputSchema, "type"))
     \/ ~Truthy(Get(inputSchema, "properties"))
  THEN DefaultSchema
  ELSE inputSchema

\* the loop body of registerTools in index.ts for the descriptor d
registerTools_Index(d) ==
  LET formattedTitle == FormatTitle(d.title)
      formattedSchema ==
        FillAdditionalProperties(FillRequired(WellFormedOrDefault(d.inputSchema)))
  IN IF LowerIncludes(d.title, "google") /\ LowerIncludes(d.title, "search")
     THEN Pass(Tool(<<"Google", "_", "Search">>,
                    Str("Give your agent the power to query Google."),
                    FALSE, GoogleSearchSchema),
               Undef, Undef)
     ELSE Pass(Tool(formattedTitle, d.description, FALSE, formattedSchema),
               formattedSchema,
               transformInputSchema_Index(formattedSchema, formattedTitle))

\* the loop body of registerTools in part_001
registerTools_001(d) ==
  LET formattedTitle == FormatTitle(d.title)
      formattedSchema ==
        FillAdditionalProperties(FillRequired(WellFormedOrDefault(d.inputSchema)))
      props == IF Truthy(Get(formattedSchema, "properties"))
               THEN Get(formattedSchema, "properties") ELSE Obj(<<>>)
  IN Pass(Tool(formattedTitle, d.description, TRUE, cleanSchema(props)),
          formattedSchema,
          transformInputSchema_Part(formattedSchema))

\* the loop body of registerTools in part_000; a tool without name is skipped
registerTools_000(d) ==
  LET formattedTitle == FormatTitle(d.title)
      description == IF Truthy(d.description) THEN d.description ELSE Str("")
      formattedSchema ==
        FillAdditionalProperties(FillRequired_000(
          IF Truthy(d.inputSchema) THEN d.inputSchema ELSE DefaultSchema))
      props == IF Truthy(Get(formattedSchema, "properties"))
               THEN Get(formattedSchema, "properties") ELSE Obj(<<>>)
  IN IF Len(d.title) = 0
     THEN Pass(NoTool, Undef, Undef)
     ELSE Pass(Tool(formattedTitle, description, TRUE, cleanSchema(props)),
               formattedSchema,
               transformInputSchema_Part(formattedSchema))

registerTools_Body(srv, d) ==
  CASE srv = "index" -> registerTools_Index(d)
    [] srv = "part_001" -> registerTools_001(d)
    [] srv = "part_000" -> registerTools_000(d)

\* registerTools is about to fetch the descriptor of one remote tool
InitRegistry ==
  /\ rev = "A"
  /\ entry = "index"
  /\ onStream = FALSE
  /\ apiKey = TRUE
  /\ pc = "fetch"
  /\ InvocationStart
  /\ UnifyIdle
  /\ server \in Servers
  /\ descriptor \in Descriptors
  /\ registered = NoTool
  /\ formatted = Undef
  /\ transformed = Undef
  /\ StartupIdle

\* fetchAppDetails (fetchAvailableTools) returns the descriptor, or null after
\* a failed request, and then nothing is registered
registerTools_Fetch ==
  /\ pc = "fetch"
  /\ \E ok \in BOOLEAN : pc' = IF ok THEN "details" ELSE "skipped"
  /\ UNCHANGED <<rev, entry, onStream, apiKey, unifyVars, registryVars, startupVars,
                 bodyVars, concVars, submitVars,
                 submits, streamOpens, requests, pollVars, streamVars, endVars>>

\* the loop body runs up to the server.tool call
registerTools_Register ==
  /\ pc = "details"
  /\ registered' = registerTools_Body(server, descriptor).tool
  /\ formatted' = registerTools_Body(server, descriptor).formatted
  /\ transformed' = registerTools_Body(server, descriptor).transformed
  /\ pc' = "registered"
  /\ UNCHANGED <<rev, entry, onStream, apiKey, unifyVars, server, descriptor,
                 startupVars, bodyVars, concVars, submitVars, submits, streamOpens, requests, pollVars, streamVars,
                 endVars>>

NextRegistry == registerTools_Fetch \/ registerTools_Register

RegistrySpec == InitRegistry /\ [][NextRegistry]_vars

\* ------------------------------------------- the stream loop on its own

\* the records the remote side may write, as bytes: an object, the numbers 1
\* and 0, the string of one two-byte character, a blank-padded number, a log
\* line, an empty line and a line that is not JSON
StreamLines ==
  { <<"{", "}">>, <<"1">>, <<"0">>, <<"\"", "e1", "e2", "\"">>, <<" ", "1">>,
    <<"INFO:", "1">>, <<>>, <<"1", " ", "1">> }

\* each record is followed by a newline
RECURSIVE JoinRecords(_)
JoinRecords(ls) ==
  IF Len(ls) = 0 THEN <<>> ELSE Head(ls) \o <<"\n">> \o JoinRecords(Tail(ls))

StreamBodies ==
  {JoinRecords(ls) : ls \in UNION {[1..n -> StreamLines] : n \in 0..MaxLines}}

\* makeWordwareRequest has opened the event stream of run r1 for a caller
\* that passed a stream callback
InitStream ==
  /\ rev \in {"A", "C"}
  /\ entry = "mwr"
  /\ onStream = TRUE
  /\ apiKey = TRUE
  /\ pc = "stream"
  /\ attempt = 0
  /\ runId = "r1"
  /\ streamUrl = TRUE
  /\ submitKind = "ok"
  /\ submitDone = FALSE
  /\ submits = 1
  /\ polls = 0
  /\ delays = 0
  /\ streamOpens = 1
  /\ requests = {[to |-> "submit", auth |-> "bearer"], [to |-> "stream", auth |-> "bearer"]}
  /\ lastPoll = NoResp
  /\ sawTerminal = FALSE
  /\ chunkCount = 0
  /\ buffer = <<>>
  /\ sink = <<>>
  /\ streamClosed = FALSE
  /\ result = Return(Undef)
  /\ outcome = NoOutcome
  /\ response = Undef
  /\ UnifyIdle
  /\ RegistryIdle
  /\ streamBody \in StreamBodies
  /\ readPos = 0
  /\ ConcIdle
  /\ launcher = "none"
  /\ world = <<>>
  /\ idx = 0
  /\ registry = <<>>
  /\ connected = FALSE
  /\ called = 0

\* reader.read() resolves with the next bytes of the body, cut where the
\* transport cuts them, and the for loop consumes the decoded chunk
stream_Chunk ==
  /\ pc = "stream"
  /\ \E n \in 1..MaxChunkLen :
       /\ readPos + n <= Len(streamBody)
       /\ LET chunk == SubSeq(streamBody, readPos + 1, readPos + n)
              st == ProcessChunk(rev, [buffer |-> buffer, sink |-> sink],
                                 TextDecode(chunk))
          IN /\ chunkCount' = chunkCount + 1
             /\ buffer' = st.buffer
             /\ sink' = st.sink
             /\ readPos' = readPos + n
  /\ UNCHANGED <<config, unifyVars, registryVars, startupVars, concVars, streamBody, pc,
                 submitVars, submits, streamOpens, requests, pollVars, endVars,
                 streamClosed>>

\* reader.read() resolves with done after the last byte, or rejects at any
\* point: null is returned
stream_End ==
  /\ pc = "stream"
  /\ \E closed \in BOOLEAN :
       /\ closed => readPos = Len(streamBody)
       /\ streamClosed' = closed
  /\ FinishMwr(Null)
  /\ UNCHANGED <<config, aside, submitVars, submits, streamOpens, requests, pollVars,
                 chunkCount, buffer, sink>>

NextStream == stream_Chunk \/ stream_End

StreamSpec == InitStream /\ [][NextStream]_vars

\* ------------------------------------------- concurrent calls (revision A)

\* two tool calls in flight in the one process
Invocations == {"a", "b"}

\* the ids the remote side gives the runs it creates, in order of creation
RunIds == <<"r1", "r2">>

\* the locals of a call of executeApp that has not started
NoCall ==
  [pc |-> "idle", runId |-> "", got |-> "", attempt |-> 0, polled |-> {},
   outcome |-> NoOutcome, suppressed |-> FALSE]

InitConcurrent ==
  /\ rev = "A"
  /\ entry = "part"
  /\ onStream = FALSE
  /\ apiKey \in BOOLEAN
  /\ pc = "calls"
  /\ InvocationStart
  /\ UnifyIdle
  /\ RegistryIdle
  /\ BodyIdle
  /\ calls = [i \in Invocations |-> NoCall]
  /\ issued = 0
  /\ DISABLE_LOGGING = FALSE
  /\ launcher = "none"
  /\ world = <<>>
  /\ idx = 0
  /\ registry = <<>>
  /\ connected = FALSE
  /\ called = 0

\* what a step of a concurrent call leaves alone
concFrame ==
  <<config, pc, unifyVars, registryVars, startupVars, bodyVars, submitVars, submits,
    streamOpens, requests, pollVars, streamVars, endVars>>

\* safeLog: a log call made while the flag is set returns without logging
safeLog(c) == [c EXCEPT !.suppressed = @ \/ DISABLE_LOGGING]

\* the call of i returns: its locals are gone, its result remains
Returned(c, o) == [safeLog(c) EXCEPT !.pc = "done", !.attempt = 0, !.outcome = o]

\* were the run id kept in a variable of the module
StoreRunId_ModuleLevel(cs, i, id) == [j \in DOMAIN cs |-> [cs[j] EXCEPT !.runId = id]]

\* waitForRunCompletion(result.data.id): the id is bound to the parameter
\* runId of this call
StoreRunId(cs, i, id) == [cs EXCEPT ![i].runId = id]

\* executeApp is called: the key check, then the submit request
executeApp_Call(i) ==
  /\ calls[i].pc = "idle"
  /\ calls' = [calls EXCEPT ![i] =
                 IF ~apiKey THEN Returned(@, Failed("Execution error: " \o NoKey))
                 ELSE [safeLog(@) EXCEPT !.pc = "submit"]]
  /\ UNCHANGED <<concFrame, issued, DISABLE_LOGGING>>

\* the submit response of i arrives; a response that names a run names the
\* run the remote side created for this request
executeApp_Submitted(i) ==
  /\ calls[i].pc = "submit"
  /\ \E r \in SubmitResponses :
       LET creates == r.kind = "ok" /\ r.id # "" /\ issued < Len(RunIds)
           own == IF creates THEN [r EXCEPT !.id = RunIds[issued + 1]]
                  ELSE [r EXCEPT !.id = ""]
           e == executeApp_A_OnSubmit(own)
       IN /\ issued' = (IF creates THEN issued + 1 ELSE issued)
          /\ calls' =
               IF IsContinue(e)
               THEN StoreRunId([calls EXCEPT ![i] =
                                  [safeLog(@) EXCEPT !.pc = "delay", !.got = own.id]],
                               i, own.id)
               ELSE [calls EXCEPT ![i] = Returned([@ EXCEPT !.got = own.id], e.o)]
  /\ UNCHANGED <<concFrame, DISABLE_LOGGING>>

\* the 2 s timer of i ends and it requests the status of runs/${runId}
waitForRunCompletion_Timer(i) ==
  /\ calls[i].pc = "delay"
  /\ calls' = [calls EXCEPT ![i] =
                 [safeLog(@) EXCEPT !.pc = "poll", !.polled = @ \cup {calls[i].runId}]]
  /\ UNCHANGED <<concFrame, issued, DISABLE_LOGGING>>

\* the status response of i arrives
waitForRunCompletion_Status(i) ==
  /\ calls[i].pc = "poll"
  /\ \E r \in PollResponses :
       LET e == waitForRunCompletion_A_OnPoll(r) IN
       calls' = [calls EXCEPT ![i] =
                  IF ~IsContinue(e) THEN Returned(@, e.o)
                  ELSE IF calls[i].attempt + 1 < MaxAttempts
                  THEN [safeLog(@) EXCEPT !.pc = "delay", !.attempt = @ + 1]
                  ELSE Returned(@, TimedOut)]
  /\ UNCHANGED <<concFrame, issued, DISABLE_LOGGING>>

\* part_002's sanitizeAndParseStreamResponse runs for a line of some stream:
\* it sets the flag, parses, and clears the flag on every way out, all within
\* one turn of the event loop
sanitizeAndParseStreamResponse_Turn ==
  /\ pc = "calls"
  /\ DISABLE_LOGGING' = FALSE
  /\ UNCHANGED <<concFrame, calls, issued>>

NextConcurrent ==
  \/ \E i \in Invocations :
       \/ executeApp_Call(i)
       \/ executeApp_Submitted(i)
       \/ waitForRunCompletion_Timer(i)
       \/ waitForRunCompletion_Status(i)
  \/ sanitizeAndParseStreamResponse_Turn

ConcurrentSpec == InitConcurrent /\ [][NextConcurrent]_vars

\* ------------------------------------------------------ process start

\* what the remote side holds for one configured tool: nothing that can be
\* fetched (fetchAppDetails returns null; in part_000 a list entry without
\* name), a record without usable title (reading it throws), or a descriptor
\* with a title, for which the server.tool call returns or throws
ToolWorlds ==
  {[fate |-> "absent", title |-> <<>>], [fate |-> "malformed", title |-> <<>>]}
  \cup {[fate |-> f, title |-> t] : f \in {"ok", "rejected"}, t \in {<<"a">>, <<"b">>}}

\* the descriptor the remote side returns for a tool
DescriptorOf(w) == [title |-> w.title, description |-> Undef, inputSchema |-> Undef]

\* index.ts and part_001 call fetchAppDetails, which revisions A and C
\* export; part_000 calls fetchAvailableTools, which only revision B has
RevisionsOf(srv) == IF srv = "part_000" THEN {"B"} ELSE {"A", "C"}

\* the process is started
InitStartup ==
  /\ server \in Servers
  /\ rev \in RevisionsOf(server)
  /\ entry = (IF server = "index" THEN "index" ELSE "part")
  /\ onStream = FALSE
  /\ apiKey \in BOOLEAN
  /\ pc = "launch"
  /\ InvocationStart
  /\ UnifyIdle
  /\ descriptor = Undef
  /\ registered = NoTool
  /\ formatted = Undef
  /\ transformed = Undef
  /\ BodyIdle
  /\ ConcIdle
  /\ launcher \in {"cli", "node"}
  /\ world \in [1..MaxApps -> ToolWorlds]
  /\ idx = 0
  /\ registry = <<>>
  /\ connected = FALSE
  /\ called = 0

\* what a step of the process start leaves alone
startupFrame ==
  <<rev, entry, onStream, apiKey, unifyVars, server, descriptor, registered,
    formatted, transformed, bodyVars, concVars, launcher, world, submitVars, submits, streamOpens,
    pollVars, streamVars, endVars>>

\* cli.ts: without WORDWARE_API_KEY the process prints "Error: Missing
\* required parameters." and exits with status 1; with it, startMCP is
\* called, which is not among the files of the repository
cli_Launch ==
  /\ pc = "launch" /\ launcher = "cli"
  /\ pc' = (IF ~apiKey THEN "exit" ELSE "startMCP")
  /\ UNCHANGED <<startupFrame, requests, idx, registry, connected, called>>

\* the requests of checkApiHealth and pingApi (part_000's main): the worker
\* health URL has no key, the other two carry it in the path; n of them are
\* sent, and none without a key
HealthRequests(n) ==
  IF ~apiKey THEN {}
  ELSE {[to |-> "health", auth |-> "none"]}
       \cup (IF n >= 2 THEN {[to |-> "health", auth |-> "path"]} ELSE {})
       \cup (IF n >= 3 THEN {[to |-> "ping", auth |-> "path"]} ELSE {})

\* the server file is loaded and main() runs up to registerTools: part_000
\* checks the API health first and goes on whatever the answer
main_Start ==
  /\ pc = "launch" /\ launcher = "node"
  /\ IF server = "part_000"
     THEN /\ \E n \in 1..3 : requests' = requests \cup HealthRequests(n)
          /\ pc' = "discover"
          /\ UNCHANGED idx
     ELSE /\ pc' = "loop"
          /\ idx' = 1
          /\ UNCHANGED requests
  /\ UNCHANGED <<startupFrame, registry, connected, called>>

\* part_000: fetchAvailableTools returns the list of tools, or null (no key,
\* failed request), and then registerTools returns at once
registerTools_Discover ==
  /\ pc = "discover"
  /\ IF ~apiKey
     THEN pc' = "connect" /\ UNCHANGED <<requests, idx>>
     ELSE /\ Send("discovery")
          /\ \E ok \in BOOLEAN :
               IF ok THEN pc' = "loop" /\ idx' = 1
               ELSE pc' = "connect" /\ UNCHANGED idx
  /\ UNCHANGED <<startupFrame, registry, connected, called>>

\* fetchAppDetails of revision A sends nothing without a key
FetchesDetails == server # "part_000" /\ ~(rev = "A" /\ ~apiKey)

\* the tool at position i is registered by its pass of the loop: its
\* descriptor is fetched, the loop body does not throw and server.tool returns
Succeeds(i) ==
  /\ world[i].fate = "ok"
  /\ server # "part_000" => FetchesDetails

\* a loop that is left when a tool fails
AfterTool_Abort(i, failed) == IF failed \/ i = MaxApps THEN "connect" ELSE "loop"

\* where the loop goes after the tool at position i: every failure is caught
\* inside the loop body (continue, or one of the two catch blocks)
AfterTool(i, failed) == IF i = MaxApps THEN "connect" ELSE "loop"

\* one pass of registerTools' loop
registerTools_Iteration ==
  /\ pc = "loop" /\ idx <= MaxApps
  /\ IF FetchesDetails THEN Send("discovery") ELSE UNCHANGED requests
  /\ registry' =
       IF Succeeds(idx)
       THEN Append(registry,
                   [app |-> idx,
                    tool |-> registerTools_Body(server, DescriptorOf(world[idx])).tool])
       ELSE registry
  /\ pc' = AfterTool(idx, ~Succeeds(idx))
  /\ idx' = idx + 1
  /\ UNCHANGED <<startupFrame, connected, called>>

\* a main that connects without awaiting registerTools
MayConnect_NoAwait == pc \in {"loop", "connect"}

\* await registerTools() has returned
MayConnect == pc = "connect"

\* main: server.connect(transport)
main_Connect ==
  /\ MayConnect /\ ~connected
  /\ connected' = TRUE
  /\ UNCHANGED <<startupFrame, requests, pc, idx, registry, called>>

\* a client calls a registered tool: its handler runs executeApp or
\* executeTool for the app it was created with
tools_Call ==
  /\ connected
  /\ \E i \in 1..Len(registry) : called' = registry[i].app
  /\ UNCHANGED <<startupFrame, requests, pc, idx, registry, connected>>

NextStartup ==
  \/ cli_Launch
  \/ main_Start
  \/ registerTools_Discover
  \/ registerTools_Iteration
  \/ main_Connect
  \/ tools_Call

StartupSpec == InitStartup /\ [][NextStartup]_vars

\* --------------------------------------------------------------- claims

\* the invocation is a tool call, made through a registered handler
ToolCall == entry # "mwr"

Terminal == {"Succeeded", "Failed", "TimedOut"}

\* the invocation is in the Polling state, or has been
EnteredPolling == pc \in {"delay", "poll"} \/ polls >= 1

\* the invocation is in the Streaming state
InStreaming == pc \in {"streamopen", "stream"}

\* v is { content: [b1, ...] }, not empty, every block of type text or html
IsContentList(v) ==
  /\ v.t = "obj"
  /\ Get(v, "content").t = "arr"
  /\ Len(Get(v, "content").items) > 0
  /\ \A i \in 1..Len(Get(v, "content").items) :
       LET b == Get(v, "content").items[i] IN
       /\ b.t = "obj"
       /\ Get(b, "type").t = "str"
       /\ Get(b, "type").v \in {"text", "html"}

\* v is { content: [ { type: "text", text: <string> } ] }
IsSingleText(v) ==
  /\ IsContentList(v)
  /\ Len(Get(v, "content").items) = 1
  /\ Get(Get(v, "content").items[1], "type").v = "text"
  /\ Get(Get(v, "content").items[1], "text").t = "str"

\* C1: every tool invocation eventually reaches one terminal outcome
\* (Succeeded, Failed or TimedOut) and stays there, whatever statuses the
\* remote service reports.
C1_ReachesOneTerminalOutcome ==
  <>[](ToolCall => pc = "done" /\ outcome.k \in Terminal)

\* C2: an invocation that polls never sends a 31st status request, and when
\* no status response was terminal it ends as TimedOut after exactly 30.
C2_TimedOutAfter30Polls ==
  ToolCall /\ EnteredPolling =>
    /\ polls <= MaxAttempts
    /\ (pc = "done" /\ ~sawTerminal => outcome = TimedOut /\ polls = MaxAttempts)

\* C3: when the latest status response reports completed or succeeded with
\* outputs, the invocation has ended as Succeeded with exactly those outputs.
C3_SucceededWithReportedOutputs ==
  ToolCall /\ IsSuccessStatus(lastPoll) =>
    pc = "done" /\ outcome = Succeeded(lastPoll.outputs)

\* C4: when a status response reports failed, the invocation has ended as
\* Failed (no further status request), and the reason is the run's reported
\* error when it reported one.
C4_FailedWithReportedError ==
  ToolCall /\ IsFailedStatus(lastPoll) =>
    /\ pc = "done"
    /\ outcome.k = "Failed"
    /\ (Truthy(lastPoll.error) => outcome.reason = TextOf(lastPoll.error))

\* C5: a failed status fetch (non-ok response or rejected fetch) never ends
\* the invocation by itself: after it the engine is still polling, or the
\* attempts are exhausted and the outcome is TimedOut.
C5_FailedFetchKeepsPolling ==
  ToolCall /\ lastPoll.kind \in {"neterr", "httperr"} =>
    pc \in {"delay", "poll"} \/ (pc = "done" /\ outcome = TimedOut)

\* C6: after a non-ok submit response the invocation is Failed with the
\* response body as reason, the submit was sent once, and no status or
\* stream request was sent.
C6_SubmitErrorFailsWithBody ==
  ToolCall /\ submitKind = "httperr" =>
    /\ pc = "done"
    /\ outcome = Failed(ErrorBody)
    /\ submits = 1 /\ polls = 0 /\ streamOpens = 0

\* C7: a tool invocation that failed or timed out returns a result whose
\* content is a single text block.
C7_FailureIsSingleTextBlock ==
  ToolCall /\ pc = "done" /\ outcome.k \in {"Failed", "TimedOut"} =>
    IsSingleText(response)

\* C8: the result of every finished tool invocation is a non-empty list of
\* content blocks of type text or html.
C8_ResultIsContentBlocks ==
  ToolCall /\ pc = "done" => IsContentList(response)

\* the submit response itself ended the invocation: revision B's reply is
\* the result, revision C's makeWordwareRequest gives up without a run id,
\* revision A's executeApp returns the outputs of a run already completed
SubmitEndedInvocation ==
  /\ pc = "done"
  /\ polls = 0
  /\ \/ rev = "B"
     \/ rev = "C" /\ runId = ""
     \/ rev = "A" /\ entry # "mwr" /\ submitDone /\ outcome.k = "Succeeded"

C11_StreamCloseResolvesOutcome ==
  streamClosed /\ pc = "done" => polls >= 1 \/ outcome.k \in Terminal

\* v has a content field that holds an array
HasContentArray(v) == Truthy(Get(v, "content")) /\ Get(v, "content").t = "arr"

\* the value under .output, directly or inside the first key, else v itself
ListedUnwrap(v) ==
  LET keys == ObjectKeys(v)
      nested == IF Len(keys) > 0 THEN Get(v, keys[1]) ELSE Undef
  IN IF v.t = "obj" /\ Truthy(Get(v, "output")) THEN Get(v, "output")
     ELSE IF v.t = "obj" /\ nested.t = "obj" /\ Truthy(Get(nested, "output"))
     THEN Get(nested, "output")
     ELSE v

\* the rules after the unwrapping, in the order the ladder lists them
ListedRules(v) ==
  IF Truthy(Get(v, "markdown")) THEN Content(<<TextBlock(Get(v, "markdown"))>>)
  ELSE IF Truthy(Get(v, "text")) THEN Content(<<TextBlock(Get(v, "text"))>>)
  ELSE IF Truthy(Get(v, "html")) THEN Content(<<HtmlBlock(Get(v, "html"))>>)
  ELSE IF Truthy(Get(v, "data"))
  THEN Content(<<TextBlock(IF Get(v, "data").t = "str" THEN Get(v, "data")
                           ELSE Str(Stringify(Get(v, "data"), 0)))>>)
  ELSE IF v.t = "str" THEN Content(<<TextBlock(v)>>)
  ELSE Content(<<TextBlock(Str(Stringify(v, 0)))>>)

\* the ladder in the listed order: content array, unwrapping, then the rules
ListedLadder(v) ==
  IF HasContentArray(v) THEN Obj(<< <<"content", Get(v, "content")>> >>)
  ELSE LET u == ListedUnwrap(v) IN
       IF HasContentArray(u) THEN Obj(<< <<"content", Get(u, "content")>> >>)
       ELSE ListedRules(u)

\* C12: for every result that is neither null, undefined nor an error
\* object, executeTool returns what the ladder yields in its listed order
\* (content array, unwrapping of .output, markdown or text, html, data,
\* string, pretty-printed JSON); a value with text and html gives a Text block.
C12_LadderInListedOrder ==
  pc = "unified" /\ ~ReadThrows(raw) /\ ~Truthy(Get(raw, "error")) =>
    unified = ListedLadder(raw)

\* C13: executeTool of a null or undefined result returns the one text block
\* "No response received from the tool."
C13_NullGivesPlaceholder ==
  pc = "unified" /\ ReadThrows(raw) =>
    unified = Content(<<TextBlock(Str("No response received from the tool."))>>)

\* a registration has been made for the descriptor
Registered == pc = "registered" /\ registered.made

\* the properties of the schema handed to server.tool: the members of a zod
\* shape, or the properties of a JSON schema
RegisteredProperties ==
  IF registered.zod THEN registered.schema ELSE Get(registered.schema, "properties")

\* the type of the registered property k
RegisteredType(k) ==
  IF registered.zod
  THEN Get(Get(RegisteredProperties, k), "zod")
  ELSE Get(Get(RegisteredProperties, k), "type")

\* the required list of the registered schema; no member of the zod shape is
\* optional
RegisteredRequired ==
  IF registered.zod THEN KeysArr(registered.schema)
  ELSE Get(registered.schema, "required")

\* the properties the remote descriptor declares (Undef when it has none)
DeclaredProperties ==
  IF Truthy(descriptor.inputSchema)
  THEN Get(descriptor.inputSchema, "properties")
  ELSE Undef

PrimitiveTypes == {Str("string"), Str("number"), Str("boolean")}

\* C14: a descriptor whose only input property is random_string is registered
\* with the default one-property schema, without the sentinel property.
C14_SentinelOnlyGetsDefault ==
  Registered /\ ObjectKeys(DeclaredProperties) = <<"random_string">> =>
    ObjectKeys(RegisteredProperties) \in {<<"query">>, <<"input">>}

\* C15: a descriptor without inputSchema.properties is registered with exactly
\* one property, typed string and required.
C15_NoPropertiesGetsOneRequiredString ==
  Registered /\ DeclaredProperties = Undef =>
    /\ Len(ObjectKeys(RegisteredProperties)) = 1
    /\ RegisteredType(ObjectKeys(RegisteredProperties)[1]) = Str("string")
    /\ RegisteredRequired = KeysArr(RegisteredProperties)

\* C16: the registered name has 1 to 64 characters, all of them letters,
\* digits, underscore or hyphen.
C16_NameMatchesPattern ==
  Registered =>
    /\ NameLength(registered.name) \in 1..64
    /\ \A i \in 1..Len(registered.name) : registered.name[i] \notin {" ", "!"}

\* C17: every registered property has type string, number or boolean, and a
\* declared property whose type is missing or anything else has type string.
C17_PropertyTypesArePrimitive ==
  Registered =>
    \A i \in 1..Len(ObjectKeys(RegisteredProperties)) :
      LET k == ObjectKeys(RegisteredProperties)[i] IN
      /\ RegisteredType(k) \in PrimitiveTypes
      /\ (Get(Get(DeclaredProperties, k), "type") \notin PrimitiveTypes
            => RegisteredType(k) = Str("string"))

C19_AdditionalPropertiesFalse ==
  Registered /\ ~registered.zod
  /\ Get(registered.schema, "additionalProperties") # Undef =>
    Get(registered.schema, "additionalProperties") = Bool(FALSE)

\* C20: the registered description is the description the descriptor supplies.
C20_DescriptionKept ==
  Registered /\ Truthy(descriptor.description) =>
    registered.description = descriptor.description

\* the latest status response reports completed without outputs
CompletedWithoutOutputs(r) ==
  r.kind = "ok" /\ r.status = "completed" /\ ~Truthy(r.outputs)

\* C29: a status response that reports completed without outputs does not end
\* the invocation: the engine goes on polling, or the attempts are exhausted
\* and the outcome is TimedOut after 30 status requests; the invocation never
\* ends as Succeeded on it.
C29_CompletedWithoutOutputsKeepsPolling ==
  ToolCall /\ CompletedWithoutOutputs(lastPoll) =>
    \/ pc \in {"delay", "poll"}
    \/ pc = "done" /\ outcome = TimedOut /\ polls = MaxAttempts

\* C30: a submit response that reports completed with outputs ends the
\* invocation as Succeeded with those outputs, no status request sent and no
\* timer awaited; in every other case each status request sent so far was
\* preceded by a full inter-attempt delay.
C30_ImmediateCompletionSkipsPolling ==
  ToolCall =>
    /\ submitDone =>
         pc = "done" /\ outcome.k = "Succeeded" /\ polls = 0 /\ delays = 0
    /\ polls <= delays

\* C23: every request sent to the remote service (submit, status, stream)
\* carries the key as a bearer credential.
C23_EveryRequestCarriesBearer ==
  \A q \in requests : q.auth = "bearer"

\* the tool at position i has a registration of its own
InRegistry(i) == \E j \in 1..Len(registry) : registry[j].app = i

\* C21: a tool that fails (not fetched, malformed, rejected by server.tool)
\* is the only one skipped: every tool the loop has passed whose own
\* processing succeeds is registered, and once registerTools has returned
\* from its loop every configured tool has been passed.
C21_OtherToolsStillRegistered ==
  /\ \A i \in 1..MaxApps : i < idx /\ Succeeds(i) => InRegistry(i)
  /\ pc = "connect" => idx \in {0, MaxApps + 1}
  /\ idx = 0 => pc \in {"launch", "exit", "startMCP", "discover", "connect"}

\* C21 witness: the server is connected, the first tool failed and a later
\* one is registered
C21_RegisteredAfterFailure ==
  /\ connected
  /\ world[1].fate \in {"absent", "malformed", "rejected"}
  /\ \E i \in 2..MaxApps : Succeeds(i) /\ InRegistry(i)

ReadText == TextDecode(SubSeq(streamBody, 1, readPos))

\* the lines of a text that a newline ends, in order
RECURSIVE CompleteLines(_, _)
CompleteLines(text, cur) ==
  IF Len(text) = 0 THEN <<>>
  ELSE IF Head(text) = "\n"
  THEN <<cur>> \o CompleteLines(Tail(text), <<>>)
  ELSE CompleteLines(Tail(text), Append(cur, Head(text)))

\* the parsed values of the records of a text that are not empty, not log
\* lines and valid JSON, in stream order
ListedRecords(text) ==
  LET kept == SelectSeq(CompleteLines(text, <<>>),
                        LAMBDA l : /\ Len(Trim(l)) > 0
                                   /\ ~HasLogPrefix(Trim(l))
                                   /\ ~JSONParse(Trim(l)).thrown)
  IN [i \in 1..Len(kept) |-> JSONParse(Trim(kept[i])).value]

\* C26: while a stream is read for a caller with a callback, the callback has
\* received exactly the non-empty, valid JSON records read so far that are
\* not log lines, each once and in stream order.
C26_SinkGetsEveryJsonRecord ==
  onStream /\ readPos > 0 => sink = ListedRecords(ReadText)

\* C28: the values the callback has received are those it would have
\* received had the same bytes arrived as one chunk.
C28_SinkIndependentOfChunking ==
  onStream /\ readPos > 0 =>
    sink = ProcessChunk(rev, [buffer |-> <<>>, sink |-> <<>>], ReadText).sink

\* C25: concurrent calls share no run-level state: a call requests the
\* status of no run but the one its own submit returned, no log call of it is
\* suppressed by the flag, and a step of one call changes nothing of another.
C25_InvocationsShareNoRunState ==
  /\ [](/\ ~DISABLE_LOGGING
        /\ \A i \in DOMAIN calls :
             /\ calls[i].polled \subseteq {calls[i].got}
             /\ calls[i].pc \in {"delay", "poll"} => calls[i].runId = calls[i].got
             /\ ~calls[i].suppressed)
  /\ [][\A i \in DOMAIN calls :
          calls'[i] # calls[i] => \A j \in DOMAIN calls \ {i} : calls'[j] = calls[j]]_vars

C25_TwoRunsInFlight ==
  /\ DOMAIN calls = Invocations
  /\ calls["a"].pc = "done" /\ calls["a"].outcome.k = "Succeeded"
  /\ calls["a"].polled = {"r1"}
  /\ calls["b"].pc = "poll" /\ calls["b"].polled = {"r2"}

====
